---- MODULE Spec2Model ----
(***************************************************************************)
(* Block-cipher modes of operation (ECB, CBC, CTR) of src/src/lib.rs:      *)
(* padding, grouping, the three mode drivers, and a caller that applies    *)
(* them to byte buffers, with optional tampering of a ciphertext byte.     *)
(***************************************************************************)
EXTENDS Integers, Sequences, FiniteSets, TLC

(* ------------------------------ bounds -------------------------------- *)

\* Longest plaintext buffer the caller hands to an operation.
MaxLen == 32

(* ------------------------- program constants -------------------------- *)

\* const BLOCK_SIZE: usize = 16
BLOCK_SIZE == 16

\* Number of values of a u8.
ByteRange == 256

\* Number of bytes of a u64 (counter.to_be_bytes()).
CounterBytes == 8

Byte == 0..(ByteRange - 1)

\* tests::TEST_KEY
TEST_KEY == <<6, 108, 74, 203, 170, 212, 94, 238, 171, 104, 19, 17, 248, 197, 127, 138>>

(* ----------------------------- byte helpers --------------------------- *)

\* u8 ^ u8, bit by bit.
RECURSIVE xor_byte(_, _)
xor_byte(a, b) ==
    IF a = 0 THEN b
    ELSE IF b = 0 THEN a
    ELSE (((a % 2) + (b % 2)) % 2) + 2 * xor_byte(a \div 2, b \div 2)

\* The ^ operator on u8, tabulated once.
XorTab == [a \in Byte |-> [b \in Byte |-> xor_byte(a, b)]]

\* fn xor_block: result[i] = block1[i] ^ block2[i] for i in 0..BLOCK_SIZE
xor_block(block1, block2) ==
    [i \in 1..BLOCK_SIZE |-> XorTab[block1[i]][block2[i]]]

(* ------------------------- the block transform ------------------------ *)
(* Aes128 is an external crate. It is modelled as a keyed permutation of   *)
(* the 16-byte blocks with diffusion inside the block: each output byte    *)
(* depends on the key byte, the input byte and every earlier input byte.   *)
(* aes_decrypt is its inverse under the same key (5 * 205 = 1 mod 256).    *)

aes_encrypt(data, key) ==
    LET c[i \in 0..BLOCK_SIZE] ==
            IF i = 0 THEN 0
            ELSE (5 * XorTab[data[i]][key[i]] + c[i - 1] + i) % ByteRange
    IN  [i \in 1..BLOCK_SIZE |-> c[i]]

aes_decrypt(data, key) ==
    LET prev(i) == IF i = 1 THEN 0 ELSE data[i - 1]
    IN  [i \in 1..BLOCK_SIZE |->
            XorTab[(205 * (data[i] + 2 * ByteRange - prev(i) - i)) % ByteRange][key[i]]]

(* ------------------------------ padding ------------------------------- *)

\* pad with no padding at all for a buffer that is already a multiple of
\* the block size.
pad_none_at_multiple(data) ==
    LET number_pad_bytes == (BLOCK_SIZE - (Len(data) % BLOCK_SIZE)) % BLOCK_SIZE
    IN  data \o [i \in 1..number_pad_bytes |-> number_pad_bytes % ByteRange]

\* pad pushing the loop index instead of the pad length.
pad_pushes_index(data) ==
    LET number_pad_bytes == BLOCK_SIZE - (Len(data) % BLOCK_SIZE)
    IN  data \o [i \in 1..number_pad_bytes |-> (i - 1) % ByteRange]

\* fn pad: number_pad_bytes = BLOCK_SIZE - data.len() % BLOCK_SIZE, pushed
\* number_pad_bytes times (as u8).
pad(data) ==
    LET number_pad_bytes == BLOCK_SIZE - (Len(data) % BLOCK_SIZE)
    IN  data \o [i \in 1..number_pad_bytes |-> number_pad_bytes % ByteRange]

\* un_pad that also requires every pad byte to hold the pad length.
un_pad_validating(data) ==
    IF Len(data) = 0 THEN data
    ELSE LET last_byte == data[Len(data)]
         IN  IF last_byte = 0 \/ last_byte > Len(data)
             THEN data
             ELSE IF \A i \in (Len(data) - last_byte + 1)..Len(data) : data[i] = last_byte
                  THEN SubSeq(data, 1, Len(data) - last_byte)
                  ELSE data

\* fn un_pad
un_pad(data) ==
    IF Len(data) = 0 THEN data
    ELSE LET last_byte == data[Len(data)]
         IN  IF last_byte = 0 \/ last_byte > Len(data)
             THEN data
             ELSE SubSeq(data, 1, Len(data) - last_byte)

(* ------------------------------ grouping ------------------------------ *)

\* group panics (slice index out of range) when a trailing partial block
\* is copied.
group_panics(data) == Len(data) % BLOCK_SIZE # 0

\* group whose loop stops one block early (i + BLOCK_SIZE < data.len()).
RECURSIVE group_from_short(_, _)
group_from_short(data, i) ==
    IF i + BLOCK_SIZE < Len(data)
    THEN <<SubSeq(data, i + 1, i + BLOCK_SIZE)>> \o group_from_short(data, i + BLOCK_SIZE)
    ELSE <<>>

\* fn group: the while loop from byte offset i (0-based), stride BLOCK_SIZE.
RECURSIVE group_from(_, _)
group_from(data, i) ==
    IF i < Len(data)
    THEN <<SubSeq(data, i + 1, i + BLOCK_SIZE)>> \o group_from(data, i + BLOCK_SIZE)
    ELSE <<>>

group(data) == group_from(data, 0)

\* fn un_group: data.extend_from_slice(&block) for each block in order.
RECURSIVE un_group(_)
un_group(blocks) ==
    IF blocks = <<>> THEN <<>>
    ELSE Head(blocks) \o un_group(Tail(blocks))

(* -------------------------------- ECB --------------------------------- *)

\* ecb_encrypt that xors each block with the previous ciphertext block
\* before encrypting it (chaining from an all-zero block).
RECURSIVE ecb_chain(_, _, _)
ecb_chain(blocks, previous_block, key) ==
    IF blocks = <<>> THEN <<>>
    ELSE LET encrypted_block == aes_encrypt([i \in 1..BLOCK_SIZE |->
                                    XorTab[Head(blocks)[i]][previous_block[i]]], key)
         IN  <<encrypted_block>> \o ecb_chain(Tail(blocks), encrypted_block, key)

ecb_encrypt_chained(plain_text, key) ==
    un_group(ecb_chain(group(pad(plain_text)), [i \in 1..BLOCK_SIZE |-> 0], key))

\* pub fn ecb_encrypt: pad, group, aes_encrypt every block, un_group.
ecb_encrypt(plain_text, key) ==
    LET blocks == group(pad(plain_text))
    IN  un_group([i \in 1..Len(blocks) |-> aes_encrypt(blocks[i], key)])

\* ecb_decrypt's decrypted_blocks: aes_decrypt of every block.
ecb_decrypt_blocks(cipher_text, key) ==
    LET blocks == group(cipher_text)
    IN  [i \in 1..Len(blocks) |-> aes_decrypt(blocks[i], key)]

\* ecb_decrypt that forgets un_pad.
ecb_decrypt_no_un_pad(cipher_text, key) ==
    un_group(ecb_decrypt_blocks(cipher_text, key))

\* pub fn ecb_decrypt
ecb_decrypt(cipher_text, key) ==
    un_pad(un_group(ecb_decrypt_blocks(cipher_text, key)))

(* -------------------------------- CBC --------------------------------- *)

\* cbc_encrypt's for loop over the plaintext blocks, previous_block carried.
RECURSIVE cbc_encrypt_loop(_, _, _)
cbc_encrypt_loop(blocks, previous_block, key) ==
    IF blocks = <<>> THEN <<>>
    ELSE LET xored_block == xor_block(Head(blocks), previous_block)
             encrypted_block == aes_encrypt(xored_block, key)
         IN  <<encrypted_block>> \o cbc_encrypt_loop(Tail(blocks), encrypted_block, key)

\* pub fn cbc_encrypt, with the iv that rng.fill_bytes drew.
cbc_encrypt(plain_text, key, iv) ==
    LET blocks == group(pad(plain_text))
    IN  un_group(<<iv>> \o cbc_encrypt_loop(blocks, iv, key))

\* cbc_decrypt's loop with previous_block set to the decrypted block.
RECURSIVE cbc_decrypt_loop_prev_plain(_, _, _)
cbc_decrypt_loop_prev_plain(blocks, previous_block, key) ==
    IF blocks = <<>> THEN <<>>
    ELSE LET decrypted_block == aes_decrypt(Head(blocks), key)
             xored_block == xor_block(decrypted_block, previous_block)
         IN  <<xored_block>> \o cbc_decrypt_loop_prev_plain(Tail(blocks), xored_block, key)

\* cbc_decrypt's loop with previous_block never updated (always the iv); the
\* first decrypted block is still right.
RECURSIVE cbc_decrypt_loop_prev_fixed(_, _, _)
cbc_decrypt_loop_prev_fixed(blocks, previous_block, key) ==
    IF blocks = <<>> THEN <<>>
    ELSE LET decrypted_block == aes_decrypt(Head(blocks), key)
             xored_block == xor_block(decrypted_block, previous_block)
         IN  <<xored_block>> \o cbc_decrypt_loop_prev_fixed(Tail(blocks), previous_block, key)

\* cbc_decrypt's for loop over blocks.iter().skip(1), previous_block carried:
\* each block is decrypted, xored with previous_block, and becomes the new
\* previous_block (the ciphertext block, not the decrypted one).
RECURSIVE cbc_decrypt_loop(_, _, _)
cbc_decrypt_loop(blocks, previous_block, key) ==
    IF blocks = <<>> THEN <<>>
    ELSE LET decrypted_block == aes_decrypt(Head(blocks), key)
             xored_block == xor_block(decrypted_block, previous_block)
         IN  <<xored_block>> \o cbc_decrypt_loop(Tail(blocks), Head(blocks), key)

\* cbc_decrypt's decrypted_blocks: previous_block = blocks[0], loop over the rest.
cbc_decrypt_blocks(cipher_text, key) ==
    LET blocks == group(cipher_text)
    IN  cbc_decrypt_loop(Tail(blocks), blocks[1], key)

\* pub fn cbc_decrypt
cbc_decrypt(cipher_text, key) ==
    un_pad(un_group(cbc_decrypt_blocks(cipher_text, key)))

(* -------------------------------- CTR --------------------------------- *)

\* counter >> (8 * n)
RECURSIVE shift_bytes(_, _)
shift_bytes(counter, n) ==
    IF n = 0 THEN counter ELSE shift_bytes(counter \div ByteRange, n - 1)

\* u64::to_be_bytes: most significant byte first.
to_be_bytes(counter) ==
    [j \in 1..CounterBytes |-> shift_bytes(counter, CounterBytes - j) % ByteRange]

\* counter_block: nonce in [..BLOCK_SIZE / 2], counter.to_be_bytes() after it.
counter_block(nonce, counter) ==
    [i \in 1..BLOCK_SIZE |->
        IF i <= BLOCK_SIZE \div 2 THEN nonce[i]
        ELSE to_be_bytes(counter)[i - BLOCK_SIZE \div 2]]

\* padded_nonce: nonce in the first half, zeros in the second.
padded_nonce(nonce) ==
    [i \in 1..BLOCK_SIZE |-> IF i <= BLOCK_SIZE \div 2 THEN nonce[i] ELSE 0]

\* ctr_encrypt's for loop: counter_block = nonce | counter, encrypted, xored
\* with the plaintext block; counter += 1. (The u64 counter cannot wrap
\* within the buffers a caller can hold.)
RECURSIVE ctr_encrypt_loop(_, _, _, _)
ctr_encrypt_loop(blocks, nonce, counter, key) ==
    IF blocks = <<>> THEN <<>>
    ELSE LET encrypted_counter_block == aes_encrypt(counter_block(nonce, counter), key)
             xored_block == xor_block(Head(blocks), encrypted_counter_block)
         IN  <<xored_block>> \o ctr_encrypt_loop(Tail(blocks), nonce, counter + 1, key)

\* pub fn ctr_encrypt, with the nonce that rng.fill_bytes drew.
ctr_encrypt(plain_text, key, nonce) ==
    LET blocks == group(pad(plain_text))
    IN  un_group(<<padded_nonce(nonce)>> \o ctr_encrypt_loop(blocks, nonce, 0, key))

\* ctr_decrypt's loop without counter += 1.
RECURSIVE ctr_decrypt_loop_no_increment(_, _, _, _)
ctr_decrypt_loop_no_increment(blocks, nonce, counter, key) ==
    IF blocks = <<>> THEN <<>>
    ELSE LET encrypted_counter_block == aes_encrypt(counter_block(nonce, counter), key)
             decrypted_block == xor_block(Head(blocks), encrypted_counter_block)
         IN  <<decrypted_block>> \o ctr_decrypt_loop_no_increment(Tail(blocks), nonce, counter, key)

\* ctr_decrypt's loop xoring each block with the ciphertext block before it
\* as well (CBC's chaining step left in), the first block with nothing.
RECURSIVE ctr_chain(_, _, _, _, _)
ctr_chain(blocks, previous_block, nonce, counter, key) ==
    IF blocks = <<>> THEN <<>>
    ELSE LET encrypted_counter_block == aes_encrypt(counter_block(nonce, counter), key)
             decrypted_block ==
                 xor_block(xor_block(Head(blocks), encrypted_counter_block), previous_block)
         IN  <<decrypted_block>> \o ctr_chain(Tail(blocks), Head(blocks), nonce, counter + 1, key)

ctr_decrypt_loop_chained(blocks, nonce, counter, key) ==
    ctr_chain(blocks, [i \in 1..BLOCK_SIZE |-> 0], nonce, counter, key)

\* ctr_decrypt's for loop over blocks.iter().skip(1): the same counter block
\* is rebuilt and encrypted (never decrypted), then xored with the block.
RECURSIVE ctr_decrypt_loop(_, _, _, _)
ctr_decrypt_loop(blocks, nonce, counter, key) ==
    IF blocks = <<>> THEN <<>>
    ELSE LET encrypted_counter_block == aes_encrypt(counter_block(nonce, counter), key)
             decrypted_block == xor_block(Head(blocks), encrypted_counter_block)
         IN  <<decrypted_block>> \o ctr_decrypt_loop(Tail(blocks), nonce, counter + 1, key)

\* ctr_decrypt's decrypted_blocks: nonce = &blocks[0][..BLOCK_SIZE / 2],
\* counter from 0.
ctr_decrypt_blocks(cipher_text, key) ==
    LET blocks == group(cipher_text)
        nonce == SubSeq(blocks[1], 1, BLOCK_SIZE \div 2)
    IN  ctr_decrypt_loop(Tail(blocks), nonce, 0, key)

\* pub fn ctr_decrypt
ctr_decrypt(cipher_text, key) ==
    un_pad(un_group(ctr_decrypt_blocks(cipher_text, key)))

(* ------------------------------ the caller ---------------------------- *)
(* A caller holds a plaintext buffer and a key and applies the functions   *)
(* of the crate to them, as the crate's tests do: pad / un_pad, group /    *)
(* un_group, and each mode's encrypt followed by its decrypt, with or      *)
(* without one ciphertext byte overwritten in between.                     *)

VARIABLES
    plain_text,   \* the buffer the caller starts from
    key,          \* the caller's key
    calls,        \* names of the functions called so far, in order
    arg,          \* the byte buffer passed to the last call that took one
    data,         \* the byte buffer the caller holds (last Vec<u8> returned)
    blocks,       \* the last Vec<[u8; BLOCK_SIZE]>: group's result, or a
                  \* decrypt's decrypted_blocks (before un_group and un_pad)
    rand,         \* the bytes rng.fill_bytes drew in the last encrypt
    sent,         \* the ciphertext as the last encrypt returned it
    tamper_at,    \* 1-based index of the overwritten ciphertext byte, 0 if none
    panicked      \* TRUE once a call has panicked

vars == <<plain_text, key, calls, arg, data, blocks, rand, sent, tamper_at, panicked>>

\* data[i] = first + step * i (mod 256), as the tests' (0..48).collect().
Pattern(len, first, step) ==
    [i \in 1..len |-> (first + step * (i - 1)) % ByteRange]

\* <<first, step>> of the buffers tried.
Shapes == {<<0, 1>>, <<1, 1>>, <<3, 1>>, <<16, 0>>, <<249, 1>>}

Buffers == {Pattern(len, s[1], s[2]) : len \in 0..MaxLen, s \in Shapes}

Keys == {TEST_KEY, Pattern(BLOCK_SIZE, 0, 0)}

\* Values rng.fill_bytes may leave in a [u8; BLOCK_SIZE] iv.
IVs == {Pattern(BLOCK_SIZE, 0, 0), Pattern(BLOCK_SIZE, 200, 7)}

\* Values rng.fill_bytes may leave in a [u8; BLOCK_SIZE / 2] nonce.
Nonces == {Pattern(BLOCK_SIZE \div 2, 0, 0), Pattern(BLOCK_SIZE \div 2, 131, 29)}

\* Offsets (1-based) inside a block at which a byte is overwritten.
TamperOffsets == 1..BLOCK_SIZE

\* Values written over a ciphertext byte (tests write 0).
TamperBytes == {0, 255}

Last(s) == IF s = <<>> THEN "" ELSE s[Len(s)]

Init ==
    /\ plain_text \in Buffers
    /\ key \in Keys
    /\ calls = <<>>
    /\ arg = <<>>
    /\ data = plain_text
    /\ blocks = <<>>
    /\ rand = <<>>
    /\ sent = <<>>
    /\ tamper_at = 0
    /\ panicked = FALSE

PadCall ==
    /\ ~panicked /\ calls = <<>>
    /\ calls' = Append(calls, "pad")
    /\ arg' = data
    /\ data' = pad(data)
    /\ UNCHANGED <<plain_text, key, blocks, rand, sent, tamper_at, panicked>>

UnPadCall ==
    /\ ~panicked /\ Last(calls) \in {"", "pad"}
    /\ calls' = Append(calls, "un_pad")
    /\ arg' = data
    /\ data' = un_pad(data)
    /\ UNCHANGED <<plain_text, key, blocks, rand, sent, tamper_at, panicked>>

GroupCall ==
    /\ ~panicked /\ Last(calls) \in {"", "pad"}
    /\ calls' = Append(calls, "group")
    /\ arg' = data
    /\ IF group_panics(data)
       THEN panicked' = TRUE /\ blocks' = blocks
       ELSE panicked' = FALSE /\ blocks' = group(data)
    /\ UNCHANGED <<plain_text, key, data, rand, sent, tamper_at>>

UnGroupCall ==
    /\ ~panicked /\ Last(calls) = "group"
    /\ calls' = Append(calls, "un_group")
    /\ data' = un_group(blocks)
    /\ UNCHANGED <<plain_text, key, arg, blocks, rand, sent, tamper_at, panicked>>

EcbEncryptCall ==
    /\ ~panicked /\ calls = <<>>
    /\ calls' = Append(calls, "ecb_encrypt")
    /\ arg' = data
    /\ data' = ecb_encrypt(data, key)
    /\ sent' = data'
    /\ UNCHANGED <<plain_text, key, blocks, rand, tamper_at, panicked>>

EcbDecryptCall ==
    /\ ~panicked /\ Last(calls) = "ecb_encrypt"
    /\ calls' = Append(calls, "ecb_decrypt")
    /\ arg' = data
    /\ blocks' = ecb_decrypt_blocks(data, key)
    /\ data' = ecb_decrypt(data, key)
    /\ UNCHANGED <<plain_text, key, rand, sent, tamper_at, panicked>>

CbcEncryptCall ==
    /\ ~panicked /\ calls = <<>>
    /\ \E iv \in IVs :
        /\ rand' = iv
        /\ data' = cbc_encrypt(data, key, iv)
    /\ calls' = Append(calls, "cbc_encrypt")
    /\ arg' = data
    /\ sent' = data'
    /\ UNCHANGED <<plain_text, key, blocks, tamper_at, panicked>>

CbcDecryptCall ==
    /\ ~panicked /\ Last(calls) \in {"cbc_encrypt", "cbc_tamper"}
    /\ calls' = Append(calls, "cbc_decrypt")
    /\ arg' = data
    /\ blocks' = cbc_decrypt_blocks(data, key)
    /\ data' = cbc_decrypt(data, key)
    /\ UNCHANGED <<plain_text, key, rand, sent, tamper_at, panicked>>

CtrEncryptCall ==
    /\ ~panicked /\ calls = <<>>
    /\ \E nonce \in Nonces :
        /\ rand' = nonce
        /\ data' = ctr_encrypt(data, key, nonce)
    /\ calls' = Append(calls, "ctr_encrypt")
    /\ arg' = data
    /\ sent' = data'
    /\ UNCHANGED <<plain_text, key, blocks, tamper_at, panicked>>

CtrDecryptCall ==
    /\ ~panicked /\ Last(calls) \in {"ctr_encrypt", "ctr_tamper"}
    /\ calls' = Append(calls, "ctr_decrypt")
    /\ arg' = data
    /\ blocks' = ctr_decrypt_blocks(data, key)
    /\ data' = ctr_decrypt(data, key)
    /\ UNCHANGED <<plain_text, key, rand, sent, tamper_at, panicked>>

\* modified_ciphertext[pos] = v, for a v that changes the byte.
Tamper(mode) ==
    /\ ~panicked /\ Last(calls) = mode \o "_encrypt"
    /\ \E b \in 0..((Len(data) \div BLOCK_SIZE) - 1), off \in TamperOffsets, v \in TamperBytes :
        LET pos == b * BLOCK_SIZE + off
        IN  /\ data[pos] # v
            /\ data' = [data EXCEPT ![pos] = v]
            /\ tamper_at' = pos
    /\ calls' = Append(calls, mode \o "_tamper")
    /\ UNCHANGED <<plain_text, key, arg, blocks, rand, sent, panicked>>

CbcTamper == Tamper("cbc")

CtrTamper == Tamper("ctr")

Next ==
    \/ PadCall
    \/ UnPadCall
    \/ GroupCall
    \/ UnGroupCall
    \/ EcbEncryptCall
    \/ EcbDecryptCall
    \/ CbcEncryptCall
    \/ CbcTamper
    \/ CbcDecryptCall
    \/ CtrEncryptCall
    \/ CtrTamper
    \/ CtrDecryptCall

Spec == Init /\ [][Next]_vars

(* ------------------------------ properties ---------------------------- *)

\* The 0-based index of the ciphertext block holding the overwritten byte
\* (block 0 is the iv or the nonce block).
TamperedBlock == (tamper_at - 1) \div BLOCK_SIZE

\* The indices (1-based: decrypted block n comes from ciphertext block n) at
\* which decrypted_blocks differs from `reference`.
DiffBlocks(reference) ==
    {n \in 1..Len(blocks) : blocks[n] # reference[n]}

\* C1: un_pad(pad(x)) = x for every buffer x, the empty buffer and the
\* buffers of a length that is a multiple of BLOCK_SIZE included.
C1_PadUnpadRoundTrip ==
    calls = <<"pad", "un_pad">> => data = plain_text

C1_Witness ==
    /\ calls = <<"pad", "un_pad">>
    /\ Len(plain_text) = 2 * BLOCK_SIZE
    /\ Len(arg) = 3 * BLOCK_SIZE
    /\ data = plain_text

\* C2: cbc_decrypt(cbc_encrypt(x, k), k) = x for every plaintext, key and
\* iv drawn (aes_decrypt inverting aes_encrypt under the same key).
C2_CbcRoundTrip ==
    calls = <<"cbc_encrypt", "cbc_decrypt">> => data = plain_text

C2_Witness ==
    /\ calls = <<"cbc_encrypt", "cbc_decrypt">>
    /\ rand # Pattern(BLOCK_SIZE, 0, 0)
    /\ Len(plain_text) > BLOCK_SIZE
    /\ Len(blocks) >= 2
    /\ data = plain_text

\* C3: ctr_decrypt(ctr_encrypt(x, k), k) = x for every plaintext, key and
\* nonce drawn; decryption reads the drawn nonce from the high half of the
\* first block, and for every counter value i from 0 the keystream block it
\* builds is the one encryption xored into plaintext block i.
C3_CtrRoundTrip ==
    calls = <<"ctr_encrypt", "ctr_decrypt">> =>
        LET cipher_blocks == group(arg)
            plain_blocks == group(pad(plain_text))
            nonce == SubSeq(cipher_blocks[1], 1, BLOCK_SIZE \div 2)
        IN  /\ data = plain_text
            /\ nonce = rand
            /\ Len(cipher_blocks) = Len(plain_blocks) + 1
            /\ \A n \in 1..Len(plain_blocks) :
                  aes_encrypt(counter_block(nonce, n - 1), key)
                      = xor_block(plain_blocks[n], cipher_blocks[n + 1])

C3_Witness ==
    /\ calls = <<"ctr_encrypt", "ctr_decrypt">>
    /\ rand # Pattern(BLOCK_SIZE \div 2, 0, 0)
    /\ Len(blocks) = 3
    /\ data = plain_text

\* C4: ecb_decrypt(ecb_encrypt(x, k), k) = x for every plaintext and key
\* (aes_decrypt inverting aes_encrypt under the same key).
C4_EcbRoundTrip ==
    calls = <<"ecb_encrypt", "ecb_decrypt">> => data = plain_text

C4_Witness ==
    /\ calls = <<"ecb_encrypt", "ecb_decrypt">>
    /\ Len(plain_text) > BLOCK_SIZE
    /\ key = TEST_KEY
    /\ data = plain_text

\* C5 as stated: after one byte of ciphertext block i (i >= 1) is changed,
\* exactly two decrypted blocks differ from the untampered decryption, the
\* ones decrypted from ciphertext blocks i and i + 1.
C5_CbcTamperExactlyTwo ==
    (calls = <<"cbc_encrypt", "cbc_tamper", "cbc_decrypt">> /\ TamperedBlock >= 1) =>
        /\ DiffBlocks(cbc_decrypt_blocks(sent, key)) = {TamperedBlock, TamperedBlock + 1}
        /\ Cardinality(DiffBlocks(cbc_decrypt_blocks(sent, key))) = 2

\* C5 amended: after one byte of ciphertext block i (i >= 1) is changed, the
\* decrypted blocks that differ from the untampered decryption are exactly
\* the one decrypted from ciphertext block i and, when block i is not the
\* last ciphertext block, the one decrypted from block i + 1.
C5_CbcTamperLocalized ==
    (calls = <<"cbc_encrypt", "cbc_tamper", "cbc_decrypt">> /\ TamperedBlock >= 1) =>
        DiffBlocks(cbc_decrypt_blocks(sent, key))
            = {TamperedBlock, TamperedBlock + 1} \cap (1..Len(blocks))

C5_Witness ==
    /\ calls = <<"cbc_encrypt", "cbc_tamper", "cbc_decrypt">>
    /\ Len(blocks) = 3
    /\ TamperedBlock = 2
    /\ DiffBlocks(cbc_decrypt_blocks(sent, key)) = {2, 3}

\* C6: after one byte of the ciphertext block with counter value i is
\* changed (the nonce block left alone), the only decrypted block that
\* differs from the untampered decryption is block i.
C6_CtrTamperLocal ==
    (calls = <<"ctr_encrypt", "ctr_tamper", "ctr_decrypt">> /\ TamperedBlock >= 1) =>
        DiffBlocks(ctr_decrypt_blocks(sent, key)) = {TamperedBlock}

C6_Witness ==
    /\ calls = <<"ctr_encrypt", "ctr_tamper", "ctr_decrypt">>
    /\ Len(blocks) = 3
    /\ TamperedBlock = 2
    /\ DiffBlocks(ctr_decrypt_blocks(sent, key)) = {2}

\* C7: pad(x) is x followed by n bytes of value n, n = B - (len(x) mod B),
\* 1 <= n <= B; len(pad(x)) is a positive multiple of B, and a full block of
\* B bytes of value B is appended when len(x) is a multiple of B.
C7_PadShape ==
    calls = <<"pad">> =>
        LET n == Len(data) - Len(arg)
        IN  /\ n = BLOCK_SIZE - (Len(arg) % BLOCK_SIZE)
            /\ n \in 1..BLOCK_SIZE
            /\ SubSeq(data, 1, Len(arg)) = arg
            /\ \A i \in (Len(arg) + 1)..Len(data) : data[i] = n
            /\ Len(data) > 0
            /\ Len(data) % BLOCK_SIZE = 0
            /\ (Len(arg) % BLOCK_SIZE = 0 => n = BLOCK_SIZE)

C7_Witness ==
    /\ calls = <<"pad">>
    /\ Len(arg) = BLOCK_SIZE
    /\ Len(data) = 2 * BLOCK_SIZE
    /\ data[Len(data)] = BLOCK_SIZE

\* C8: un_pad never fails; it returns its input unchanged when the input
\* is empty or its last byte n is 0 or exceeds the length, and otherwise
\* returns the input without its last n bytes, whatever those bytes hold.
C8_UnPadBehaviour ==
    Last(calls) = "un_pad" =>
        /\ ~panicked
        /\ IF arg = <<>> THEN data = arg
           ELSE LET n == arg[Len(arg)]
                IN  IF n = 0 \/ n > Len(arg)
                    THEN data = arg
                    ELSE data = SubSeq(arg, 1, Len(arg) - n)

\* un_pad stripped n >= 2 bytes that are not all of value n.
C8_Witness ==
    /\ Last(calls) = "un_pad"
    /\ Len(arg) >= 2
    /\ arg[Len(arg)] \in 2..Len(arg)
    /\ arg[Len(arg) - 1] # arg[Len(arg)]
    /\ Len(data) = Len(arg) - arg[Len(arg)]

\* C9: for a buffer x of a length that is a multiple of B, group(x) is
\* len(x) / B blocks of B bytes, block n holding bytes (n-1)*B .. n*B - 1 of
\* x in order, and un_group(group(x)) = x.
C9_GroupRoundTrip ==
    (Last(calls) \in {"group", "un_group"} /\ ~panicked) =>
        /\ Len(arg) % BLOCK_SIZE = 0
        /\ Len(blocks) = Len(arg) \div BLOCK_SIZE
        /\ \A n \in 1..Len(blocks) :
              /\ Len(blocks[n]) = BLOCK_SIZE
              /\ \A j \in 1..BLOCK_SIZE : blocks[n][j] = arg[(n - 1) * BLOCK_SIZE + j]
        /\ (Last(calls) = "un_group" => data = arg)

C9_Witness ==
    /\ calls = <<"group", "un_group">>
    /\ Len(plain_text) = 2 * BLOCK_SIZE
    /\ Len(blocks) = 2
    /\ data = plain_text

\* C10: every ciphertext block of ecb_encrypt is aes_encrypt of the padded
\* plaintext block at the same position, so equal padded plaintext blocks
\* give equal ciphertext blocks.
C10_EcbBlockwise ==
    calls = <<"ecb_encrypt">> =>
        LET plain_blocks == group(pad(plain_text))
            cipher_blocks == group(data)
        IN  /\ Len(cipher_blocks) = Len(plain_blocks)
            /\ \A i \in 1..Len(plain_blocks) :
                  cipher_blocks[i] = aes_encrypt(plain_blocks[i], key)
            /\ \A i, j \in 1..Len(plain_blocks) :
                  plain_blocks[i] = plain_blocks[j] => cipher_blocks[i] = cipher_blocks[j]

C10_Witness ==
    /\ calls = <<"ecb_encrypt">>
    /\ LET plain_blocks == group(pad(plain_text))
           cipher_blocks == group(data)
       IN  \E i, j \in 1..Len(plain_blocks) :
              /\ i # j
              /\ plain_blocks[i] = plain_blocks[j]
              /\ cipher_blocks[i] = cipher_blocks[j]

====
